---- MODULE Spec2Model ----
(***************************************************************************)
(* A model of informant (src/informant/informant.py): a news reader that   *)
(* keeps, in one store file, the list of the entries already read.         *)
(*                                                                         *)
(* One behaviour is a series of invocations of the program against one     *)
(* fetched feed and one store file.  The commands check, list, read --all  *)
(* and read <item> run from start to exit in one step; read without a      *)
(* selector blocks on the terminal, so it runs up to its next prompt and   *)
(* goes on with each answer.                                               *)
(*                                                                         *)
(* What is left out: the text of the formatted output (html2text, colours, *)
(* wrapping; --raw changes only that text), the diagnostics --debug writes *)
(* to stderr, the fetch itself (informant.feed is not part of the file)    *)
(* and the configuration file, taken to exist.                             *)
(***************************************************************************)
EXTENDS Integers, Sequences, FiniteSets

\* ------------------------------------------------------------ bounds
Titles == {"a", "b"}
MaxTime == 2      \* timestamps are 1..MaxTime
MaxFeed == 3      \* entries fetched
MaxMarks == 1     \* markers in the store file the first invocation finds

\* ------------------------------------------------------------ data
\* An entry of the feed: entry['title'], entry['timestamp'] (the body only
\* reaches the formatted text).  informant.feed, which builds the entries,
\* is not in the file: a timestamp is taken to be a value that orders, has
\* timestamp() and prints, and two entries not to share title and time.  Entries differ in title or timestamp:
\* the title "a" at every time, and "b" at the time of the oldest "a".
Entries ==
    {e \in [title : Titles, timestamp : 1..MaxTime] :
        e.title = "b" => e.timestamp = 1}

NoEntry == [title |-> "", timestamp |-> 0]

\* The records are built here, each with its fields in the order in which
\* the names first occur in the module: TLC keeps them in that order, and
\* its workers then never reorder a record they share.

\* One line of output.
Ev(ev, entry, count) == [ev |-> ev, entry |-> entry, count |-> count]

File(kind, cache, markers) == [kind |-> kind, cache |-> cache, markers |-> markers]

\* The selector of read <item>: its text is an integer (int() returns
\* index) or it is not (int() raises ValueError).
Selector(kind, index, text) == [kind |-> kind, index |-> index, text |-> text]
IntItem(i) == Selector("int", i, "")
StrItem(t) == Selector("str", 0, t)
NoItem == Selector("none", 0, "")

\* The command line as docopt returns it.
Args(cmd, debug, all, item, reverse, unread) ==
    [cmd |-> cmd, debug |-> debug, all |-> all, item |-> item,
     reverse |-> reverse, unread |-> unread]

NoArgs == Args("", FALSE, FALSE, NoItem, FALSE, FALSE)

\* str(date.timestamp()) + '|' + title.  The text of a float holds no '|',
\* so the string determines both parts: the pair stands for the string.
Key(entry) == <<entry.timestamp, entry.title>>

Range(s) == {s[i] : i \in DOMAIN s}

NoDuplicates(s) == \A i, j \in DOMAIN s : s[i] = s[j] => i = j

SeqsUpTo(S, n) == UNION {[1..k -> S] : k \in 0..n}

\* What the entries of the configured feeds, concatenated, can be.
Fetched == {s \in SeqsUpTo(Entries, MaxFeed) : NoDuplicates(s)}

\* The two default caches of get_datfile and a cache a former run stored.
CacheEmptyAge == "feed,max-age,last-request"
CacheEmptyComponents == "feed,components"
CacheStored == "stored"

\* The store file: what opening and unpickling it does.
\*   missing     open raises FileNotFoundError
\*   unreadable  open raises PermissionError
\*   empty       pickle.load raises EOFError
\*   wrongshape  a pickled sequence of other than two items: ValueError
\*   garbage     bytes that are no pickle: pickle.UnpicklingError
\*   valid       a pickled (cache, readlist)
BrokenKinds == {"missing", "unreadable", "empty", "wrongshape", "garbage"}

Stores ==
    {File(k, "", <<>>) : k \in BrokenKinds}
    \cup {File("valid", CacheStored, ms) :
            ms \in {s \in SeqsUpTo({Key(e) : e \in Entries}, MaxMarks) : NoDuplicates(s)}}

\* What writing the store file does: it succeeds, open raises
\* PermissionError, or it raises another OSError (IsADirectoryError, ...).
\* A file the user may not read is taken not to be writable either.
WriteOutcomes(d) ==
    IF d.kind = "unreadable" THEN {"PermissionError", "OSError"}
    ELSE {"ok", "PermissionError", "OSError"}


\* ------------------------------------------------------------ state
VARIABLES
    fetched,        \* the entries the feeds return, as fetched
    disk,           \* the store file
    pc,             \* "idle" (no process), "prompt", "exited"
    ARGV,           \* the arguments of the invocation
    RFP,            \* the parent process is pacman
    CACHE,
    READLIST,
    out,            \* stdout, and each question prompt_yes_no is called with
    err,            \* stderr: the error message, a traceback
    exit,           \* the exit status, once pc = "exited"
    unread_entries, \* of read_cmd's loop
    pos,            \* the entry the loop is at
    read_next,      \* what prompt_yes_no returned last, "" before
    saves,          \* calls of save_datfile in this invocation
    marks,          \* calls of mark_as_read in this invocation
    failed,         \* the write that failed in this invocation, or ""
    disk0,          \* the store file when the invocation started
    READLIST0       \* READLIST as get_datfile returned it

vars == <<fetched, disk, pc, ARGV, RFP, CACHE, READLIST, out, err, exit,
          unread_entries, pos, read_next, saves, marks, failed, disk0,
          READLIST0>>

\* ------------------------------------------------------------ the store
\* get_datfile: the (cache, readlist) of the file, a default when open or
\* pickle.load raise one of the four exceptions it catches; any other
\* exception leaves the function.
get_datfile(d) ==
    CASE d.kind = "valid" ->
            [cache |-> d.cache, raised |-> FALSE, readlist |-> d.markers]
      [] d.kind \in {"empty", "wrongshape"} ->
            [cache |-> CacheEmptyAge, raised |-> FALSE, readlist |-> <<>>]
      [] d.kind \in {"missing", "unreadable"} ->
            [cache |-> CacheEmptyComponents, raised |-> FALSE, readlist |-> <<>>]
      [] OTHER ->
            [cache |-> "", raised |-> TRUE, readlist |-> <<>>]

has_been_read(entry, readlist) == Key(entry) \in Range(readlist)

\* The process: p.alive until sys.exit or an uncaught exception.
Process(cache, readlist, d) ==
    [disk |-> d, CACHE |-> cache, READLIST |-> readlist, out |-> <<>>,
     err |-> <<>>, exit |-> 0, saves |-> 0, marks |-> 0, failed |-> "",
     alive |-> TRUE]

\* sys.exit(code): the status the parent sees is the low eight bits.
sys_exit(p, code) ==
    IF p.alive THEN [p EXCEPT !.alive = FALSE, !.exit = code % 256] ELSE p

\* An exception nothing catches: a traceback, exit status 1.
uncaught(p, name) ==
    IF p.alive
    THEN [p EXCEPT !.alive = FALSE, !.exit = 1,
                   !.err = Append(@, Ev("Traceback", NoEntry, 0))]
    ELSE p

print(p, line) == IF p.alive THEN [p EXCEPT !.out = Append(@, line)] ELSE p

save_datfile_always(p, debug, w) ==
    LET q == [p EXCEPT !.saves = @ + 1]
    IN  CASE w = "ok" ->
                [q EXCEPT !.disk = File("valid", q.CACHE, q.READLIST)]
          [] w = "PermissionError" ->
                sys_exit([q EXCEPT !.err = Append(@, Ev("ERROR", NoEntry, 0)),
                                   !.failed = w], 255)
          [] OTHER -> uncaught([q EXCEPT !.failed = w], w)

save_datfile_swallow(p, debug, w) ==
    LET q == [p EXCEPT !.saves = @ + 1]
    IN  IF debug THEN q
        ELSE CASE w = "ok" ->
                    [q EXCEPT !.disk = File("valid", q.CACHE, q.READLIST)]
              [] w = "PermissionError" ->
                    [q EXCEPT !.err = Append(@, Ev("ERROR", NoEntry, 0)),
                              !.failed = w]
              [] OTHER -> uncaught([q EXCEPT !.failed = w], w)

save_datfile_stale(p, debug, w) ==
    LET q == [p EXCEPT !.saves = @ + 1]
    IN  IF debug THEN q
        ELSE CASE w = "ok" ->
                    [q EXCEPT !.disk = File("valid", q.CACHE,
                                  SubSeq(q.READLIST, 1, Len(q.READLIST) - 1))]
              [] w = "PermissionError" ->
                    sys_exit([q EXCEPT !.err = Append(@, Ev("ERROR", NoEntry, 0)),
                                       !.failed = w], 255)
              [] OTHER -> uncaught([q EXCEPT !.failed = w], w)

\* save_datfile: nothing under --debug; else the file is rewritten with
\* (CACHE, READLIST), and a PermissionError ends the process with 255.
save_datfile(p, debug, w) ==
    LET q == [p EXCEPT !.saves = @ + 1]
    IN  IF debug THEN q
        ELSE CASE w = "ok" ->
                    [q EXCEPT !.disk = File("valid", q.CACHE, q.READLIST)]
              [] w = "PermissionError" ->
                    sys_exit([q EXCEPT !.err = Append(@, Ev("ERROR", NoEntry, 0)),
                                       !.failed = w], 255)
              [] OTHER -> uncaught([q EXCEPT !.failed = w], w)

mark_as_read_again(entry, p, debug, w) ==
    IF ~p.alive THEN p
    ELSE save_datfile([p EXCEPT !.READLIST = Append(@, Key(entry)),
                                !.marks = @ + 1], debug, w)

mark_as_read_unsaved(entry, p, debug, w) ==
    IF ~p.alive THEN p
    ELSE IF has_been_read(entry, p.READLIST) THEN [p EXCEPT !.marks = @ + 1]
    ELSE [p EXCEPT !.READLIST = Append(@, Key(entry)), !.marks = @ + 1]

\* mark_as_read: append the key and save, unless the key is there.
mark_as_read(entry, p, debug, w) ==
    IF ~p.alive THEN p
    ELSE IF has_been_read(entry, p.READLIST) THEN [p EXCEPT !.marks = @ + 1]
    ELSE save_datfile([p EXCEPT !.READLIST = Append(@, Key(entry)),
                                !.marks = @ + 1], debug, w)

pretty_print_item(p, item) == print(p, Ev("item", item, 0))

pacman_msg(p, rfp, text) == IF rfp THEN print(p, Ev(text, NoEntry, 0)) ELSE p

\* ------------------------------------------------------------ the feed
Reverse(s) == [i \in 1..Len(s) |-> s[Len(s) + 1 - i]]

\* Where sorted(..., reverse=True) puts e among the sorted s: after every
\* entry that is not older (the sort is stable).
Insert(s, e) ==
    LET k == Cardinality({i \in DOMAIN s : s[i].timestamp >= e.timestamp})
    IN  SubSeq(s, 1, k) \o <<e>> \o SubSeq(s, k + 1, Len(s))

RECURSIVE sorted(_)
sorted(s) ==
    IF s = <<>> THEN <<>>
    ELSE Insert(sorted(SubSeq(s, 1, Len(s) - 1)), s[Len(s)])

\* run(): the feed every command gets.
feed == sorted(fetched)

Unread(f, readlist) == SelectSeq(f, LAMBDA e : ~has_been_read(e, readlist))

\* ------------------------------------------------------------ check
check_cmd_count_all(f, p, debug, rfp, w) ==
    LET unread_items == Unread(f, p.READLIST)
        unread == Len(unread_items)
        p1 == IF unread = 1
              THEN pacman_msg(
                     mark_as_read(unread_items[1],
                       pretty_print_item(pacman_msg(p, rfp, "Stopping upgrade"),
                                         unread_items[1]),
                       debug, w),
                     rfp, "re-run pacman")
              ELSE IF unread > 1
              THEN pacman_msg(print(p, Ev("summary", NoEntry, unread)),
                              rfp, "run informant read")
              ELSE p
    IN  sys_exit(p1, Len(f))

check_cmd_mark_first(f, p, debug, rfp, w) ==
    LET unread_items == Unread(f, p.READLIST)
        unread == Len(unread_items)
        p1 == IF unread >= 1
              THEN pacman_msg(
                     mark_as_read(unread_items[1],
                       IF unread = 1
                       THEN pretty_print_item(
                              pacman_msg(p, rfp, "Stopping upgrade"),
                              unread_items[1])
                       ELSE print(p, Ev("summary", NoEntry, unread)),
                       debug, w),
                     rfp, IF unread = 1 THEN "re-run pacman"
                          ELSE "run informant read")
              ELSE p
    IN  sys_exit(p1, unread)

\* check_cmd: count the unread entries; print and mark a single one; tell
\* how many there are when there are more; exit with the count.
check_cmd(f, p, debug, rfp, w) ==
    LET unread_items == Unread(f, p.READLIST)
        unread == Len(unread_items)
        p1 == IF unread = 1
              THEN pacman_msg(
                     mark_as_read(unread_items[1],
                       pretty_print_item(pacman_msg(p, rfp, "Stopping upgrade"),
                                         unread_items[1]),
                       debug, w),
                     rfp, "re-run pacman")
              ELSE IF unread > 1
              THEN pacman_msg(print(p, Ev("summary", NoEntry, unread)),
                              rfp, "run informant read")
              ELSE p
    IN  sys_exit(p1, unread)

\* ------------------------------------------------------------ list
\* list_cmd: one line per entry shown, numbered from 0 over the entries
\* shown; an unread entry is bold.  main() then exits with 0.
list_cmd(f, p, reverse, unread) ==
    LET feed_list == IF reverse THEN Reverse(f) ELSE f
        shown == SelectSeq(feed_list,
                     LAMBDA e : ~unread \/ ~has_been_read(e, p.READLIST))
        lines == [i \in 1..Len(shown) |->
                     Ev(IF has_been_read(shown[i], p.READLIST)
                        THEN "line" ELSE "bold line", shown[i], i - 1)]
    IN  sys_exit([p EXCEPT !.out = @ \o lines], 0)

\* ------------------------------------------------------------ read
\* read --all: every entry is marked, nothing is printed.
RECURSIVE mark_all(_, _, _, _)
mark_all(f, p, debug, w) ==
    IF f = <<>> THEN p
    ELSE mark_all(Tail(f), mark_as_read(Head(f), p, debug, w), debug, w)

read_all(f, p, debug, w) == sys_exit(mark_all(f, p, debug, w), 0)

Items ==
    {IntItem(i) : i \in {0 - MaxFeed - 1, 0 - 1} \cup 0..MaxFeed}
    \cup {StrItem(t) : t \in Titles \cup {"zz"}}

\* read <item>.  feed[item] is Python's indexing: a negative index counts
\* from the end and an index out of range raises IndexError, which nothing
\* catches.  When int() raised ValueError the name item is not bound: the
\* comparison in the search loop raises UnboundLocalError at the first
\* entry, and over an empty feed entry is not bound when it is printed.
read_item(f, p, item, debug, w) ==
    IF item.kind = "int"
    THEN IF 0 <= item.index /\ item.index < Len(f)
         THEN sys_exit(mark_as_read(f[item.index + 1],
                          pretty_print_item(p, f[item.index + 1]), debug, w), 0)
         ELSE IF 0 - Len(f) <= item.index /\ item.index < 0
         THEN sys_exit(mark_as_read(f[Len(f) + item.index + 1],
                          pretty_print_item(p, f[Len(f) + item.index + 1]),
                          debug, w), 0)
         ELSE uncaught(p, "IndexError")
    ELSE uncaught(p, "UnboundLocalError")

unread_newest_first(f, readlist) == Unread(f, readlist)

\* read without a selector: unread_entries.insert(0, entry) over the feed,
\* newest first, leaves the unread entries oldest first.
unread_oldest_first(f, readlist) == Reverse(Unread(f, readlist))

\* One round of the loop: print and mark entry i, then ask whether to go
\* on, or after the last entry say there are no more; main() then exits.
read_entry(entries, i, p, debug, w) ==
    LET p1 == mark_as_read(entries[i], pretty_print_item(p, entries[i]),
                           debug, w)
    IN  IF i # Len(entries)
        THEN print(p1, Ev("Read next item?", NoEntry, 0))
        ELSE sys_exit(print(p1, Ev("No more unread items", NoEntry, 0)), 0)

\* What is typed at a prompt, and str.lower() of it.
Typed == {"y", "yes", "n", "no", "", "NO", "q"}

lower(s) == IF s = "NO" THEN "no" ELSE s

\* prompt_yes_no's judgement of one line typed: "again" asks once more.
prompt_yes_no(typed, default) ==
    LET response == lower(typed)
    IN  IF response \notin {"y", "yes", "n", "no", ""} THEN "again"
        ELSE IF response = "" THEN default
        ELSE response

\* ------------------------------------------------------------ main
\* read_cmd up to its first prompt.
read_cmd(f, p, args, w) ==
    IF args.all THEN read_all(f, p, args.debug, w)
    ELSE IF args.item.kind # "none"
    THEN read_item(f, p, args.item, args.debug, w)
    ELSE LET entries == unread_oldest_first(f, p.READLIST)
         IN  IF entries = <<>> THEN sys_exit(p, 0)
             ELSE read_entry(entries, 1, p, args.debug, w)

\* run(): the command the arguments name.
run(f, p, args, rfp, w) ==
    CASE args.cmd = "check" -> check_cmd(f, p, args.debug, rfp, w)
      [] args.cmd = "list" -> list_cmd(f, p, args.reverse, args.unread)
      [] OTHER -> read_cmd(f, p, args, w)

\* main(): load the store, then run; an exception of get_datfile ends the
\* process before any command starts.
main(d, f, args, rfp, w) ==
    LET loaded == get_datfile(d)
        p == Process(loaded.cache, loaded.readlist, d)
    IN  IF loaded.raised THEN uncaught(p, "UnpicklingError")
        ELSE run(f, p, args, rfp, w)

\* The process as the state holds it.
Running ==
    [disk |-> disk, CACHE |-> CACHE, READLIST |-> READLIST, out |-> out,
     err |-> err, exit |-> 0, saves |-> saves, marks |-> marks,
     failed |-> failed, alive |-> TRUE]

Becomes(p) ==
    /\ disk' = p.disk
    /\ CACHE' = p.CACHE
    /\ READLIST' = p.READLIST
    /\ out' = p.out
    /\ err' = p.err
    /\ exit' = p.exit
    /\ saves' = p.saves
    /\ marks' = p.marks
    /\ failed' = p.failed
    /\ pc' = IF p.alive THEN "prompt" ELSE "exited"

\* One invocation, from the command line to its exit or its first prompt.
Invoke(args, rfp, w) ==
    /\ w \in WriteOutcomes(disk)
    /\ Becomes(main(disk, feed, args, rfp, w))
    /\ ARGV' = args
    /\ RFP' = rfp
    /\ disk0' = disk
    /\ READLIST0' = get_datfile(disk).readlist
    /\ unread_entries' =
          IF args.cmd = "read" /\ ~args.all /\ args.item.kind = "none"
          THEN unread_oldest_first(feed, get_datfile(disk).readlist)
          ELSE <<>>
    /\ pos' = IF unread_entries' # <<>> THEN 1 ELSE 0
    /\ read_next' = ""
    /\ UNCHANGED fetched

Outcomes == {"ok", "PermissionError", "OSError"}

Check ==
    /\ pc = "idle"
    /\ \E debug, rfp \in BOOLEAN, w \in Outcomes :
          Invoke(Args("check", debug, FALSE, NoItem, FALSE, FALSE), rfp, w)

\* check_cmd alone reads RFP: the other commands are run outside pacman.
List ==
    /\ pc = "idle"
    /\ \E debug, reverse, unread \in BOOLEAN, w \in Outcomes :
          Invoke(Args("list", debug, FALSE, NoItem, reverse, unread), FALSE, w)

ReadAll ==
    /\ pc = "idle"
    /\ \E debug \in BOOLEAN, w \in Outcomes :
          Invoke(Args("read", debug, TRUE, NoItem, FALSE, FALSE), FALSE, w)

ReadItem ==
    /\ pc = "idle"
    /\ \E debug \in BOOLEAN, w \in Outcomes, item \in Items :
          Invoke(Args("read", debug, FALSE, item, FALSE, FALSE), FALSE, w)

Read ==
    /\ pc = "idle"
    /\ \E debug \in BOOLEAN, w \in Outcomes :
          Invoke(Args("read", debug, FALSE, NoItem, FALSE, FALSE), FALSE, w)

\* The answer typed at the prompt of read_cmd's loop.  prompt_yes_no asks
\* again until it knows the answer: the loop is where it was.
Answer ==
    \E typed \in Typed, w \in Outcomes :
        LET response == prompt_yes_no(typed, "yes")
            p == IF response = "again" THEN Running
                 ELSE IF response \in {"n", "no"} THEN sys_exit(Running, 0)
                 ELSE read_entry(unread_entries, pos + 1, Running,
                                 ARGV.debug, w)
        IN  /\ pc = "prompt"
            /\ w \in WriteOutcomes(disk)
            /\ Becomes(p)
            /\ read_next' = IF response = "again" THEN read_next
                            ELSE response
            /\ pos' = IF response \in {"again", "n", "no"} THEN pos
                      ELSE pos + 1
            /\ UNCHANGED <<fetched, ARGV, RFP, unread_entries, disk0,
                           READLIST0>>

\* The process is gone: what it held in memory is lost, the store file and
\* the feed stay for the next invocation.
Terminated ==
    /\ pc = "exited"
    /\ pc' = "idle"
    /\ ARGV' = NoArgs
    /\ RFP' = FALSE
    /\ CACHE' = ""
    /\ READLIST' = <<>>
    /\ out' = <<>>
    /\ err' = <<>>
    /\ exit' = 0
    /\ unread_entries' = <<>>
    /\ pos' = 0
    /\ read_next' = ""
    /\ saves' = 0
    /\ marks' = 0
    /\ failed' = ""
    /\ disk0' = disk
    /\ READLIST0' = <<>>
    /\ UNCHANGED <<fetched, disk>>

Init ==
    /\ fetched \in Fetched
    /\ disk \in Stores
    /\ pc = "idle"
    /\ ARGV = NoArgs
    /\ RFP = FALSE
    /\ CACHE = ""
    /\ READLIST = <<>>
    /\ out = <<>>
    /\ err = <<>>
    /\ exit = 0
    /\ unread_entries = <<>>
    /\ pos = 0
    /\ read_next = ""
    /\ saves = 0
    /\ marks = 0
    /\ failed = ""
    /\ disk0 = disk
    /\ READLIST0 = <<>>

Next == Check \/ List \/ ReadAll \/ ReadItem \/ Read \/ Answer \/ Terminated

Spec == Init /\ [][Next]_vars

\* ------------------------------------------------------------ properties
\* get_datfile returned: the globals are set and the command has started.
Loaded == pc # "idle" /\ ~get_datfile(disk0).raised

CheckExited == pc = "exited" /\ ARGV.cmd = "check" /\ Loaded

\* The entries of the feed has_been_read was false of when the run began.
UnreadAtStart == {i \in DOMAIN feed : Key(feed[i]) \notin Range(READLIST0)}

\* The entries of the feed that a run loading the store file would find
\* unread.
UnreadOnDisk ==
    {i \in DOMAIN feed : Key(feed[i]) \notin Range(get_datfile(disk).readlist)}

\* What a check started now, on this feed and this store file, exits with.
NextCheckExits ==
    {main(disk, feed, Args("check", debug, FALSE, NoItem, FALSE, FALSE),
          rfp, w).exit :
        debug \in BOOLEAN, rfp \in BOOLEAN, w \in WriteOutcomes(disk)}

Count(s, kind) == Cardinality({i \in DOMAIN s : s[i].ev = kind})

ItemsPrinted == SelectSeq(out, LAMBDA line : line.ev = "item")

\* C1 as stated: whatever the feed and the marker list, check exits with
\* the number of entries has_been_read is false of.
C1_ExitIsUnreadCount ==
    CheckExited => exit = Cardinality(UnreadAtStart)

\* C1, amended: check exits with the number of unread entries, except that
\* it exits with 255 when the write of the store raised PermissionError,
\* which happens only with one unread entry and without --debug.
C1_ExitIsUnreadCountOr255 ==
    CheckExited =>
        /\ failed # "PermissionError" => exit = Cardinality(UnreadAtStart) % 256
        /\ failed = "PermissionError" =>
              exit = 255 /\ Cardinality(UnreadAtStart) = 1 /\ ~ARGV.debug

C1_Witness ==
    /\ CheckExited
    /\ Cardinality(UnreadAtStart) = 2
    /\ exit = 2
    /\ READLIST0 # <<>>

\* C2 as stated: a check that finds exactly one unread entry prints it,
\* marks it and exits 1, and a check after it on the same feed and store
\* file finds no unread entry and exits 0.
C2_SingleUnreadThenZero ==
    (CheckExited /\ Cardinality(UnreadAtStart) = 1) =>
        /\ \E i \in UnreadAtStart :
              /\ ItemsPrinted = <<Ev("item", feed[i], 0)>>
              /\ Key(feed[i]) \in Range(READLIST)
        /\ exit = 1
        /\ UnreadOnDisk = {}
        /\ NextCheckExits = {0}

\* C2, amended: without --debug and with the store written, a check that
\* finds exactly one unread entry prints it, marks it and exits 1, and a
\* check after it finds no unread entry and exits 0.  Under --debug it
\* prints the entry, marks it in memory only and exits 1, so that a check
\* after it finds the same entry unread again.
C2_SingleUnreadSavedThenZero ==
    (CheckExited /\ Cardinality(UnreadAtStart) = 1) =>
        /\ \E i \in UnreadAtStart :
              /\ ItemsPrinted = <<Ev("item", feed[i], 0)>>
              /\ Key(feed[i]) \in Range(READLIST)
        /\ (~ARGV.debug /\ failed = "") =>
              exit = 1 /\ UnreadOnDisk = {} /\ NextCheckExits = {0}
        /\ ARGV.debug =>
              exit = 1 /\ UnreadOnDisk = UnreadAtStart /\ 0 \notin NextCheckExits

C2_Witness ==
    /\ CheckExited
    /\ Cardinality(UnreadAtStart) = 1
    /\ ~ARGV.debug
    /\ failed = ""
    /\ exit = 1
    /\ Len(feed) > 1
    /\ NextCheckExits = {0}

\* C3: a check that finds N > 1 unread entries exits N, prints the summary
\* and no entry (under pacman the advice to run informant read follows the
\* summary), and leaves the marker list in memory and the store file as
\* they were, so that the N entries are still unread.
C3_ManyUnreadUntouched ==
    (CheckExited /\ Cardinality(UnreadAtStart) > 1) =>
        /\ exit = Cardinality(UnreadAtStart)
        /\ out = IF RFP
                 THEN <<Ev("summary", NoEntry, Cardinality(UnreadAtStart)),
                        Ev("run informant read", NoEntry, 0)>>
                 ELSE <<Ev("summary", NoEntry, Cardinality(UnreadAtStart))>>
        /\ READLIST = READLIST0
        /\ disk = disk0
        /\ saves = 0
        /\ UnreadOnDisk = UnreadAtStart

C3_Witness ==
    /\ CheckExited
    /\ Cardinality(UnreadAtStart) = 3
    /\ exit = 3
    /\ ~ARGV.debug
    /\ disk.kind = "valid"

\* read <item> ran to its end.
ReadItemExited ==
    pc = "exited" /\ ARGV.cmd = "read" /\ ARGV.item.kind # "none" /\ Loaded

\* The entry C4 says the selector names: position N of the sorted feed for
\* an integer N; else the first entry of that title; else the entry the
\* scan visited last.
Resolved ==
    IF ARGV.item.kind = "int" THEN feed[ARGV.item.index + 1]
    ELSE IF \E i \in DOMAIN feed : feed[i].title = ARGV.item.text
    THEN feed[CHOOSE i \in DOMAIN feed :
                 /\ feed[i].title = ARGV.item.text
                 /\ \A j \in 1..(i - 1) : feed[j].title # ARGV.item.text]
    ELSE feed[Len(feed)]

\* C4 as stated: read <item> prints and marks the entry at position N of
\* the feed sorted by timestamp descending when <item> is the integer N,
\* else the entry of that title, else the last entry the scan visited.
\* (Cases: N within the feed, a non-empty feed, no failing write.)
C4_SelectorResolved ==
    (/\ ReadItemExited
     /\ feed # <<>>
     /\ ARGV.item.kind = "int" => ARGV.item.index \in 0..(Len(feed) - 1)
     /\ failed = "") =>
        /\ out = <<Ev("item", Resolved, 0)>>
        /\ Key(Resolved) \in Range(READLIST)
        /\ exit = 0

\* read without a selector, once the store is loaded.
InLoop ==
    /\ pc # "idle"
    /\ ARGV.cmd = "read" /\ ~ARGV.all /\ ARGV.item.kind = "none"
    /\ Loaded

\* unread_entries holds every entry unread at the start once, oldest first.
OldestFirst ==
    /\ Range(unread_entries) = {feed[i] : i \in UnreadAtStart}
    /\ Len(unread_entries) = Cardinality(UnreadAtStart)
    /\ \A i, j \in DOMAIN unread_entries :
          i < j => unread_entries[i].timestamp <= unread_entries[j].timestamp

\* The first j unread entries were printed and marked in that order, with a
\* prompt after each but the last of them, which closing follows.
Visited(j, closing) ==
    /\ READLIST = READLIST0 \o [i \in 1..j |-> Key(unread_entries[i])]
    /\ out =
          [i \in 1..(2 * j) |->
              IF i % 2 = 1 THEN Ev("item", unread_entries[(i + 1) \div 2], 0)
              ELSE IF i = 2 * j THEN closing
              ELSE Ev("Read next item?", NoEntry, 0)]
    /\ \A i \in (j + 1)..Len(unread_entries) :
          ~has_been_read(unread_entries[i], READLIST)

Prompt == Ev("Read next item?", NoEntry, 0)

NoMore == Ev("No more unread items", NoEntry, 0)

\* What C5 says of the run up to a prompt and of a run the user ended.
LoopUpToNo ==
    /\ OldestFirst
    /\ pc = "prompt" => pos < Len(unread_entries) /\ Visited(pos, Prompt)
    /\ (pc = "exited" /\ read_next \in {"n", "no"}) =>
          pos < Len(unread_entries) /\ Visited(pos, Prompt)

\* C5 as stated: read without a selector prints and marks the k unread
\* entries oldest first and prompts after each but the last; answered no
\* at the j-th prompt it has marked the j oldest and no other; never
\* answered no, it has marked all k and printed 'No more unread items'
\* once, after the last.
C5_LoopReadsAll ==
    InLoop =>
        /\ LoopUpToNo
        /\ (/\ pc = "exited"
            /\ read_next \notin {"n", "no"}
            /\ unread_entries # <<>>) =>
              Visited(Len(unread_entries), NoMore)

\* C5, amended: the same, the last part only of a run in which no write of
\* the store failed (none is tried under --debug): a failed write ends the
\* run at the entry it was marking.  With no unread entry nothing is
\* printed.
C5_LoopReadsAllUnlessWriteFails ==
    InLoop =>
        /\ LoopUpToNo
        /\ (/\ pc = "exited"
            /\ read_next \notin {"n", "no"}
            /\ unread_entries # <<>>
            /\ failed = "") =>
              Visited(Len(unread_entries), NoMore)
        /\ (pc = "exited" /\ failed # "") =>
              /\ pos \in 0..Len(unread_entries)
              /\ READLIST = READLIST0 \o
                    [i \in 1..Len(READLIST) - Len(READLIST0) |->
                        Key(unread_entries[i])]
              /\ Count(out, "No more unread items") = 0
        /\ unread_entries = <<>> => out = <<>> /\ READLIST = READLIST0

\* Answered no at the second of two prompts: two of three entries read.
C5_Witness ==
    /\ InLoop
    /\ pc = "exited"
    /\ Len(unread_entries) = 3
    /\ read_next = "no"
    /\ pos = 2
    /\ Len(READLIST) = Len(READLIST0) + 2
    /\ unread_entries[1].timestamp < unread_entries[3].timestamp

\* C6: under --debug the store file stays as the run found it, whatever
\* check or read mark.
C6_DebugLeavesStore ==
    (pc # "idle" /\ ARGV.debug) => disk = disk0

C6_Witness ==
    /\ pc = "exited"
    /\ ARGV.debug
    /\ ARGV.cmd = "read"
    /\ saves = 2
    /\ Len(READLIST) = Len(READLIST0) + 2
    /\ disk = disk0

\* C7 as stated: whatever is wrong with the store file, get_datfile returns
\* a default empty cache and an empty marker list and raises nothing.
C7_LoadFailsSoft ==
    (pc # "idle" /\ disk0.kind \in BrokenKinds) =>
        /\ ~get_datfile(disk0).raised
        /\ READLIST0 = <<>>
        /\ CACHE \in {CacheEmptyAge, CacheEmptyComponents}

\* C8: mark_as_read of an entry whose key is in the marker list changes
\* nothing and saves nothing, so a marker list without duplicates stays
\* without duplicates through check, list and read.
C8_MarkIdempotent ==
    /\ NoDuplicates(READLIST)
    /\ NoDuplicates(disk.markers)
    /\ saves = Len(READLIST) - Len(READLIST0)
    /\ saves <= marks
    /\ saves = 0 => disk = disk0 /\ READLIST = READLIST0

\* read --all over a feed with an entry read before and one unread.
C8_Witness ==
    /\ pc = "exited"
    /\ ARGV.cmd = "read" /\ ARGV.all
    /\ marks = 3
    /\ saves = 1
    /\ READLIST0 # <<>>

\* C9: without --debug, a write of the store that raises PermissionError
\* while a not-yet-read entry is marked is reported and ends the process
\* with 255; nothing more is marked or printed.
C9_PermissionErrorIsFatal ==
    failed = "PermissionError" =>
        /\ ~ARGV.debug
        /\ pc = "exited"
        /\ exit = 255
        /\ err = <<Ev("ERROR", NoEntry, 0)>>
        /\ disk \in {disk0, File("valid", CACHE, SubSeq(READLIST, 1, Len(READLIST) - 1))}
        /\ Len(READLIST) =
              1 + Len(IF disk = disk0 THEN READLIST0 ELSE disk.markers)
        /\ out # <<>> =>
              /\ out[Len(out)].ev = "item"
              /\ Key(out[Len(out)].entry) = READLIST[Len(READLIST)]

\* The write fails at the second of three entries of read's loop, after
\* the first was written.
C9_Witness ==
    /\ failed = "PermissionError"
    /\ InLoop
    /\ pos = 2
    /\ Len(unread_entries) = 3
    /\ disk # disk0

\* After mark_as_read the store file holds the list in memory, and loading
\* it gives that list back.
SavedIsLoaded ==
    (/\ pc # "idle" /\ Loaded
     /\ ~ARGV.debug /\ failed = "" /\ marks > 0) =>
        /\ disk.kind = "valid"
        /\ disk.markers = READLIST
        /\ get_datfile(disk).readlist = READLIST
        /\ get_datfile(disk).cache = CACHE

\* A marker on disk stays on disk, and a run that starts has it in its list.
MarkersStay ==
    /\ disk.kind = "valid" =>
          /\ disk'.kind = "valid"
          /\ Range(disk.markers) \subseteq Range(disk'.markers)
    /\ (pc = "idle" /\ pc' # "idle" /\ disk.kind = "valid") =>
          /\ READLIST0' = disk.markers
          /\ Range(disk.markers) \subseteq Range(READLIST')

\* C10: without --debug and with the writes succeeding, once mark_as_read
\* has returned the marker list on disk is the one in memory, so that every
\* later run that loads the file has the marked entry as read.
C10_SavedMarkersPersist == []SavedIsLoaded /\ [][MarkersStay]_vars

\* A later run finds what two earlier runs marked.
C10_Witness ==
    /\ pc = "exited" /\ Loaded
    /\ ~ARGV.debug /\ failed = "" /\ marks > 0 /\ saves = 0
    /\ Len(READLIST0) = 2
    /\ disk0.cache = CacheEmptyComponents
====
